---- MODULE Spec2Model ----
(***************************************************************************)
(* The bulk fetch orchestrator of ULOD (src/src/ulod/bulk/ckan.py):        *)
(* ckan_download_datasets resolves or resumes the list of resource refs,   *)
(* optionally persists it, and download_tabular_resources partitions it    *)
(* over a pool of processes (_process_task), each of which partitions its  *)
(* chunk over a pool of threads (_thread_task) that fetch the resources    *)
(* one at a time.                                                          *)
(***************************************************************************)
EXTENDS Integers, Sequences, FiniteSets, TLC

\* ------------------------------------------------------------------ bounds

\* Largest ref list a run of Spec resolves or finds cached.
MaxRefs == 3
\* Largest max_process_workers / max_thread_workers a run of Spec is configured with.
MaxWorkers == 2
\* Largest worker counts of the partitioning specification PSpec.
MaxSplitWorkers == 3
\* KeyboardInterrupts delivered during one run.
MaxInterrupts == 1
\* _process_task calls that fail in init_logger during one run.
MaxTaskFailures == 1
\* Largest catalog (in packages) the resolver specification RSpec pages through.
MaxPackages == 3
\* Longest raw resource id and display name of RSpec's catalogs.
MaxIdLen == 2
MaxPriorRuns == 5

VARIABLES
    pc,             \* where the run is in ckan_download_datasets / download_tabular_resources
    cfg,            \* the CKANDownloadConfig fields the orchestrator reads
    rscFile,        \* metadata/rsc_url.json: whether it exists, parses, and its JSON content
    metaFile,       \* metadata/metadata.json: the same
    diskAtStart,    \* the two files as they were when the run started
    portal,         \* the catalog as fetch_metadata found it: its packages, its failing searches
    searches,       \* the client.package_search calls of the run, in order
    catalogCalls,   \* number of client.package_search calls of the run
    rsc_url,        \* the ref list in memory
    metadata,       \* the kept-metadata document in memory
    work,           \* download_tabular_resources' chunks, one per submitted _process_task
    proc,           \* per outer task: future state, its own work list, its thread futures
    collected,      \* outer futures whose result download_tabular_resources consumed
    success_count,  \* download_tabular_resources' success_count
    errlog,         \* what download_tabular_resources logged with logger.error
    resp,           \* per resource id: the response the server gave ("none": not requested)
    visits,         \* per resource id: number of GET requests issued for it
    files,          \* per resource id: the file under datasets/<format>/
    conn,           \* per resource id: the connection of the response obtained for it
    interrupts,     \* KeyboardInterrupts raised so far
    raised,         \* the exception that left the run ("" while none did)
    summary,        \* the final "[TOTAL DOWNLOADS:s/n]" log record
    priorRuns,      \* the run directories under log/download when the run was entered
    logRoot,        \* the run directories under log/download now
    sweeps,         \* the init_logger calls of the run: 0 the parent's, i outer task i's
    pool,           \* a Socrata _process_task: its futures, what it got from each, its count
    query           \* a SocrataClient.get_dataset call: its arguments, offset and dataset

vars == <<pc, cfg, rscFile, metaFile, diskAtStart, portal, searches, catalogCalls,
          rsc_url, metadata, work, proc, collected, success_count, errlog, resp,
          visits, files, conn, interrupts, raised, summary, priorRuns, logRoot,
          sweeps, pool, query>>

\* The log directories and who swept them.
logs == <<priorRuns, logRoot, sweeps>>

\* The Socrata side.
socrata == <<pool, query>>

\* ----------------------------------------------------------------- helpers

Min(a, b) == IF a <= b THEN a ELSE b
Max(a, b) == IF a >= b THEN a ELSE b

\* Python's s[a:b] for 0 <= a <= b (the end clipped to len(s)).
Slice(s, a, b) == SubSeq(s, a + 1, Min(b, Len(s)))

\* len(range(0, n, step)) for step > 0.
RangeLen(n, step) == (n + step - 1) \div step

Range(s) == {s[i] : i \in DOMAIN s}

RECURSIVE Flatten(_)
Flatten(ss) == IF Len(ss) = 0 THEN <<>> ELSE Head(ss) \o Flatten(Tail(ss))

\* Strings are sequences of characters, a character is its code point.
\* The i-th lowercase letter.
Chr(i) == 96 + i

\* The id of the i-th resource of a catalog whose ids are single letters.
Id(i) == <<Chr(i)>>

\* A ref as fetch_metadata builds it: the tuple (resource_id, url).
Ref(i) == [kind |-> "tuple", id |-> Id(i), url |-> i]
Refs(n) == [i \in 1..n |-> Ref(i)]

Ids == {Id(i) : i \in 1..(MaxSplitWorkers * MaxSplitWorkers + 3)}

\* ------------------------------------------------------------ partitioning

\* download_tabular_resources: packages_per_process.
PackagesPerProcess(md, k1) == Len(md) \div k1

\* range(0, len(metadata), packages_per_process) raises ValueError on a zero step.
OuterSplitRaises(md, k1) == PackagesPerProcess(md, k1) = 0

OuterSplit(md, k1) ==
    LET ppp == PackagesPerProcess(md, k1)
    IN  [c \in 1..RangeLen(Len(md), ppp) |-> Slice(md, (c - 1) * ppp, (c - 1) * ppp + ppp)]

\* _process_task: packages_per_thread.
PackagesPerThread(md, k2) == Max(Len(md) \div k2, 1)

InnerSplit(md, k2) ==
    LET ppt == PackagesPerThread(md, k2)
    IN  [c \in 1..RangeLen(Len(md), ppt) |-> Slice(md, (c - 1) * ppt, (c - 1) * ppt + ppt)]

\* ------------------------------------------------------------ the catalog

\* Pagination batch size (cfg.batch_fetch_metadata) of the modelled runs.
BatchSize == 2

\* The characters fetch_metadata treats specially.
Slash == 47
Underscore == 95
Space == 32
Hyphen == 45
Colon == 58

\* str.replace(a, b) for one-character a and b.
Replace(s, a, b) == [k \in DOMAIN s |-> IF s[k] = a THEN b ELSE s[k]]

\* str.strip(): leading and trailing whitespace removed.
RECURSIVE Strip(_)
Strip(s) ==
    IF Len(s) = 0 THEN s
    ELSE IF Head(s) = Space THEN Strip(Tail(s))
    ELSE IF s[Len(s)] = Space THEN Strip(SubSeq(s, 1, Len(s) - 1))
    ELSE s

\* resource_id.replace("/", "_")
SanitizeId(id) == Replace(id, Slash, Underscore)

\* resource_name.strip().replace(" ", "-").replace(":", "-") if resource_name else ""
SanitizeName(name) ==
    IF name # <<>> THEN Replace(Replace(Strip(name), Space, Hyphen), Colon, Hyphen)
    ELSE <<>>

\* The "::" of "{}::{}".format(resource_name, resource_id).
Separator == <<Colon, Colon>>

\* The resource_id of the ref: the clean id, behind the clean name if the
\* config asks for it and there is one.
ResourceId(r, c) ==
    IF c.save_with_resource_name /\ SanitizeName(r.name) # <<>>
    THEN SanitizeName(r.name) \o Separator \o SanitizeId(r.id)
    ELSE SanitizeId(r.id)

\* A catalog of n packages, package p holding one resource with id Id(p) and
\* no name; every package matches the caller's package_search_filters.
CatalogResource(i) ==
    [id |-> Id(i), name |-> <<>>, url |-> i, accepted |-> TRUE, raises |-> FALSE]
Catalog(n) == [p \in 1..n |-> [resources |-> <<CatalogResource(p)>>, matches |-> TRUE]]

MatchesFilters(pkg) == pkg.matches

\* client.package_search(start=start, rows=rows, **filters): filtered tells
\* whether the call carries cfg.package_search_filters.
PackageSearch(catalog, start, rows, filtered) ==
    LET found == IF filtered THEN SelectSeq(catalog, MatchesFilters) ELSE catalog
    IN  [count |-> Len(found), results |-> Slice(found, start, start + rows)]

\* The packages fetch_metadata's loop sees. Interval k of
\* range(0, packages_count, batch) searches at start; start advances by batch
\* when the search returned, and stays when it raised.
RECURSIVE FetchPages(_, _, _, _, _)
FetchPages(p, start, k, pages, batch) ==
    IF k > pages THEN <<>>
    ELSE IF k \in p.failing THEN FetchPages(p, start, k + 1, pages, batch)
    ELSE PackageSearch(p.packages, start, batch, FALSE).results
             \o FetchPages(p, start + batch, k + 1, pages, batch)

\* The page searches of the loop as the client saw them.
RECURSIVE PageSearches(_, _, _, _, _)
PageSearches(p, start, k, pages, batch) ==
    IF k > pages THEN <<>>
    ELSE IF k \in p.failing
    THEN <<[start |-> start, rows |-> batch, filtered |-> FALSE, raised |-> TRUE,
            count |-> 0, returned |-> 0]>>
             \o PageSearches(p, start, k + 1, pages, batch)
    ELSE <<[start |-> start, rows |-> batch, filtered |-> FALSE, raised |-> FALSE,
            count |-> PackageSearch(p.packages, start, batch, FALSE).count,
            returned |-> Len(PackageSearch(p.packages, start, batch, FALSE).results)]>>
             \o PageSearches(p, start + batch, k + 1, pages, batch)

\* Mutant: the id is not tested.
SurvivesWithoutId(r) == r.accepted /\ r.url # 0

\* The resources of a package that pass the filter and have a url and an id.
Survives(r) == r.accepted /\ r.url # 0 /\ r.id # <<>>

RECURSIVE AcceptedResources(_)
AcceptedResources(rs) ==
    IF Len(rs) = 0 THEN <<>>
    ELSE LET r == Head(rs)
         IN  IF Survives(r)
             THEN <<r>> \o AcceptedResources(Tail(rs))
             ELSE AcceptedResources(Tail(rs))

\* package_resource_ids
PackageResourceIds(pkg) ==
    LET acc == AcceptedResources(pkg.resources)
    IN  [i \in 1..Len(acc) |-> SanitizeId(acc[i].id)]

PackageRefs(pkg, c) ==
    LET acc == AcceptedResources(pkg.resources)
    IN  [i \in 1..Len(acc) |->
            [kind |-> "tuple", id |-> ResourceId(acc[i], c), url |-> acc[i].url]]

\* Mutant: each package's refs are put in front of those found before.
RECURSIVE ResourceIdsUrlsPrepended(_, _)
ResourceIdsUrlsPrepended(pkgs, c) ==
    IF Len(pkgs) = 0 THEN <<>>
    ELSE ResourceIdsUrlsPrepended(Tail(pkgs), c) \o PackageRefs(Head(pkgs), c)

RECURSIVE ResourceIdsUrls(_, _)
ResourceIdsUrls(pkgs, c) ==
    IF Len(pkgs) = 0 THEN <<>>
    ELSE PackageRefs(Head(pkgs), c) \o ResourceIdsUrls(Tail(pkgs), c)

\* [rsc for rsc in resources if rsc["id"].replace("/", "_") in package_resource_ids]
RECURSIVE KeptResources(_, _)
KeptResources(rs, ids) ==
    IF Len(rs) = 0 THEN <<>>
    ELSE (IF SanitizeId(Head(rs).id) \in Range(ids) THEN <<Head(rs)>> ELSE <<>>)
             \o KeptResources(Tail(rs), ids)

\* Mutant: a package is kept whether or not one of its resources passed.
RECURSIVE FullMetadataKeepsAll(_)
FullMetadataKeepsAll(pkgs) ==
    IF Len(pkgs) = 0 THEN <<>>
    ELSE LET ids == PackageResourceIds(Head(pkgs))
         IN  <<[resources |-> KeptResources(Head(pkgs).resources, ids),
                num_resources |-> Len(ids)]>> \o FullMetadataKeepsAll(Tail(pkgs))

RECURSIVE FullMetadata(_)
FullMetadata(pkgs) ==
    IF Len(pkgs) = 0 THEN <<>>
    ELSE LET ids == PackageResourceIds(Head(pkgs))
         IN  (IF Len(ids) > 0
              THEN <<[resources |-> KeptResources(Head(pkgs).resources, ids),
                      num_resources |-> Len(ids)]>>
              ELSE <<>>) \o FullMetadata(Tail(pkgs))

\* packages_count = min(metadata["result"]["count"], cfg.max_datasets), the
\* count being that of the zero-row search, which carries the filters.
PackagesCount(p, c) == Min(PackageSearch(p.packages, 0, 0, TRUE).count, c.max_datasets)

\* The client.package_search calls of one fetch_metadata: the zero-row count
\* query and one search per interval.
SearchLog(p, c) ==
    <<[start |-> 0, rows |-> 0, filtered |-> TRUE, raised |-> FALSE,
       count |-> PackageSearch(p.packages, 0, 0, TRUE).count, returned |-> 0]>>
        \o PageSearches(p, c.from_dataset_index, 1,
                        RangeLen(PackagesCount(p, c), c.batch_fetch_metadata),
                        c.batch_fetch_metadata)

SearchCalls(p, c) == Len(SearchLog(p, c))

\* The predicate is called on every resource of every package of a returned
\* page, outside any try: the search after which it raises.
PredicateRaises(pkgs) ==
    \E k \in DOMAIN pkgs : \E i \in DOMAIN pkgs[k].resources : pkgs[k].resources[i].raises

RaisingSearches(p, c) ==
    {k \in DOMAIN SearchLog(p, c) :
        LET s == SearchLog(p, c)[k]
        IN  /\ ~s.raised
            /\ PredicateRaises(PackageSearch(p.packages, s.start, s.rows, s.filtered).results)}

FilterRaises(p, c) == RaisingSearches(p, c) # {}

\* The searches fetch_metadata makes before it returns or raises.
SearchesMade(p, c) ==
    IF FilterRaises(p, c)
    THEN SubSeq(SearchLog(p, c), 1,
                CHOOSE k \in RaisingSearches(p, c) : \A j \in RaisingSearches(p, c) : k <= j)
    ELSE SearchLog(p, c)

\* fetch_metadata(cfg, client): (resource_ids_urls, full_metadata).
FetchMetadata(p, c) ==
    LET pkgs == FetchPages(p, c.from_dataset_index, 1,
                           RangeLen(PackagesCount(p, c), c.batch_fetch_metadata),
                           c.batch_fetch_metadata)
    IN  [rsc_url |-> ResourceIdsUrls(pkgs, c), metadata |-> FullMetadata(pkgs)]

\* ---------------------------------------------------------- the job state

\* Mutant: the ref list is written last ref first.
JsonDumpRefsReversed(refs) ==
    [i \in DOMAIN refs |->
        [kind |-> "array", id |-> refs[Len(refs) + 1 - i].id, url |-> refs[Len(refs) + 1 - i].url]]

\* json.dump of the ref list: tuples are written as JSON arrays.
JsonDumpRefs(refs) ==
    [i \in DOMAIN refs |-> [kind |-> "array", id |-> refs[i].id, url |-> refs[i].url]]

\* json.load of rsc_url.json: JSON arrays are read as lists.
JsonLoadRefs(content) ==
    [i \in DOMAIN content |-> [kind |-> "list", id |-> content[i].id, url |-> content[i].url]]

AbsentFile == [exists |-> FALSE, valid |-> FALSE, content |-> <<>>]
StoredFile(content) == [exists |-> TRUE, valid |-> TRUE, content |-> content]
\* A file that exists and is not JSON (truncated, hand-edited).
CorruptFile == [exists |-> TRUE, valid |-> FALSE, content |-> <<>>]

\* A cache left by an earlier run that resolved n refs (ids n, n-1, .., 1).
CachedRefs(n) ==
    [i \in 1..n |-> [kind |-> "array", id |-> Id(n + 1 - i), url |-> n + 1 - i]]
CachedMetadata(n) ==
    [i \in 1..n |-> [resources |-> <<CatalogResource(n + 1 - i)>>, num_resources |-> 1]]

\* The destination's metadata/ directory when a run starts: empty, a complete
\* pair written by an earlier run, one file of the pair missing, one corrupt
\* (metadata.json is written first: a run killed while writing it leaves it
\* truncated and alone).
DiskStates ==
    {<<AbsentFile, AbsentFile>>}
        \cup {<<StoredFile(CachedRefs(n)), StoredFile(CachedMetadata(n))>> : n \in 0..MaxRefs}
        \cup {<<StoredFile(CachedRefs(1)), AbsentFile>>,
              <<AbsentFile, StoredFile(CachedMetadata(1))>>,
              <<CorruptFile, StoredFile(CachedMetadata(1))>>,
              <<StoredFile(CachedRefs(1)), CorruptFile>>,
              <<AbsentFile, CorruptFile>>}

\* ------------------------------------------------------------- the config

\* cfg.max_resource_size of the modelled runs.
MaxResourceSize == 2

\* old_dirs[3:]
Retained == 3

Configs ==
    [max_process_workers : 1..MaxWorkers,
     max_thread_workers : 1..MaxWorkers,
     save_metadata : BOOLEAN,
     \* whether cfg.connection_pool_kw carries a "timeout" (its default, {}, does not)
     timeout : BOOLEAN,
     max_resource_size : {MaxResourceSize},
     batch_fetch_metadata : {BatchSize},
     max_datasets : {MaxRefs + 1},
     from_dataset_index : {0},
     save_with_resource_name : {TRUE}]

\* -------------------------------------------------------------- responses

NoResponse == [status |-> 0, clen |-> -1, body |-> "none", size |-> 0]
\* A server that accepts the connection and never answers.
NeverAnswers == [status |-> 0, clen |-> -1, body |-> "never", size |-> 0]

\* What a server answers to the GET: the status, the declared Content-Length
\* (-1: no header), how reading the body goes ("ok", or "ioerr": the stream
\* breaks after some chunks) and the number of bytes of the body.
Responses ==
    {[status |-> 200, clen |-> -1, body |-> "ok", size |-> 1],
     [status |-> 200, clen |-> MaxResourceSize, body |-> "ioerr", size |-> MaxResourceSize],
     [status |-> 404, clen |-> MaxResourceSize, body |-> "ok", size |-> MaxResourceSize],
     [status |-> 404, clen |-> MaxResourceSize + 1, body |-> "ok", size |-> MaxResourceSize + 1],
     [status |-> 200, clen |-> MaxResourceSize + 1, body |-> "ok", size |-> MaxResourceSize + 1],
     NeverAnswers}

\* A body that starts with the ZIP local-file-header magic bytes.
ZipResponse == [status |-> 200, clen |-> -1, body |-> "zip", size |-> 1]

\* A body longer than cfg.max_resource_size sent without a Content-Length
\* header (chunked transfer encoding).
LargeUndeclared == [status |-> 200, clen |-> -1, body |-> "ok", size |-> MaxResourceSize + 1]

\* Every kind of answer the streamer can meet.
StreamResponses == Responses \cup {ZipResponse, LargeUndeclared}

\* The answers that differ for the scheduler: a success, a failure, a hang.
CoarseResponses ==
    {[status |-> 200, clen |-> -1, body |-> "ok", size |-> 1],
     [status |-> 404, clen |-> MaxResourceSize, body |-> "ok", size |-> MaxResourceSize],
     NeverAnswers}

\* Python's exception hierarchy: `except Exception` catches every exception
\* of the run but KeyboardInterrupt, a BaseException.
IsException(e) == e # "KeyboardInterrupt"

\* ------------------------------------------------------------ _thread_task

\* http.request never returns: the server never answers and no timeout is set.
FetchBlocks(r, c) == r.body = "never" /\ ~c.timeout

\* Mutant: the declared Content-Length is not compared with the cap.
FetchResultNoCap(r, c) ==
    IF r.body = "never" THEN "MaxRetryError"
    ELSE IF r.status >= 400 THEN "HTTPResourceError"
    ELSE IF r.body = "ioerr" THEN "OSError"
    ELSE ""

\* The exception raised inside the try block for a resource answered with r
\* ("": none, the resource was streamed to disk).
FetchResult(r, c) ==
    IF r.body = "never" THEN "MaxRetryError"
    ELSE IF r.status >= 400 THEN "HTTPResourceError"
    ELSE IF r.clen # -1 /\ r.clen > c.max_resource_size THEN "TooLargeResourceError"
    ELSE IF r.body = "ioerr" THEN "OSError"
    ELSE ""

\* download_destination.joinpath(f"{resource_id}.{download_format}")
DownloadDestination(resource_id) ==
    [parent |-> "datasets_folder_path", stem |-> resource_id, suffix |-> "download_format"]

\* stream_data_to_disk is reached: open(download_destination, "wb") creates
\* the file and the chunks read are written to it.
StreamReached(r, c) == FetchResult(r, c) \in {"", "OSError"}

\* The file at download_destination afterwards: every chunk read is written
\* as it comes (the signature check is commented out), so a ZIP body ends up
\* there whole ("archive") and a broken stream leaves what was read ("partial").
FileAfter(r, c, old) ==
    IF StreamReached(r, c)
    THEN (IF r.body = "ok" THEN "complete"
          ELSE IF r.body = "zip" THEN "archive"
          ELSE "partial")
    ELSE old

\* The <resource_id>/ directories of extracted archives: stream_zip_to_disk
\* raises NotImplementedError and nothing calls it, so there are none.
ExtractionDirs == {}

\* The connection of the response: response.release_conn() is the last
\* statement of stream_data_to_disk; no response was obtained when the request
\* itself raised.
ConnAfter(r, c, old) ==
    IF r.body = "never" THEN old
    ELSE IF FetchResult(r, c) = "" THEN "released"
    ELSE "held"

\* Mutant: a bare `except:` around one resource.
ThreadHandlerCatchesAll(e) == TRUE

\* `except Exception as e` around one resource.
ThreadHandlerCatches(e) == IsException(e)

\* http: the PoolManager the task fetches with (<<>> while it has none)
QueuedThread(chunk) ==
    [st |-> "queued", chunk |-> chunk, pos |-> 0, success_count |-> 0,
     errors |-> <<>>, exc |-> "", http |-> <<>>]

\* Mutant: the first failing resource ends the loop (the try around the loop
\* instead of inside it).
ThreadHandleBreaks(t, e, id) ==
    LET next == IF t.pos + 1 = Len(t.chunk) THEN "done" ELSE "running"
    IN  IF e = ""
        THEN [t EXCEPT !.success_count = @ + 1, !.pos = @ + 1, !.st = next]
        ELSE IF IsException(e)
        THEN [t EXCEPT !.errors = Append(@, [type |-> e, id |-> id]),
                       !.pos = @ + 1, !.st = "done"]
        ELSE [t EXCEPT !.st = "raised", !.exc = e]

\* Mutant: the handler also consumes the next resource of the loop.
ThreadHandleSkipsNext(t, e, id) ==
    LET next == IF t.pos + 1 = Len(t.chunk) THEN "done" ELSE "running"
        last == IF t.pos + 2 >= Len(t.chunk) THEN "done" ELSE "running"
    IN  IF e = ""
        THEN [t EXCEPT !.success_count = @ + 1, !.pos = @ + 1, !.st = next]
        ELSE IF IsException(e)
        THEN [t EXCEPT !.errors = Append(@, [type |-> e, id |-> id]),
                       !.pos = Min(@ + 2, Len(t.chunk)), !.st = last]
        ELSE [t EXCEPT !.st = "raised", !.exc = e]

\* One iteration of the loop ended with exception e ("": none) for resource id.
ThreadHandle(t, e, id) ==
    LET next == IF t.pos + 1 = Len(t.chunk) THEN "done" ELSE "running"
    IN  IF e = ""
        THEN [t EXCEPT !.success_count = @ + 1, !.pos = @ + 1, !.st = next]
        ELSE IF ThreadHandlerCatches(e)
        THEN [t EXCEPT !.errors = Append(@, [type |-> e, id |-> id]),
                       !.pos = @ + 1, !.st = next]
        ELSE [t EXCEPT !.st = "raised", !.exc = e]

\* ----------------------------------------------------------- _process_task

\* errors: the records the task's logger.error wrote to its log file.
QueuedProc == [st |-> "queued", work |-> <<>>, thr |-> <<>>, collected |-> {},
               success_count |-> 0, errors |-> {}, exc |-> ""]

\* `except Exception as e` around future.result(timeout=60).
ProcHandlerCatches(e) == IsException(e)

Executing(p) == p.st \in {"running", "exiting"}
Finished(p) == p.st \in {"returned", "raised"}
ThreadExecuting(t) == t.st \in {"running", "blocked"}
ThreadFinished(t) == t.st \in {"done", "raised"}

RunningProcs == {i \in DOMAIN proc : Executing(proc[i])}
RunningThreads(i) == {j \in DOMAIN proc[i].thr : ThreadExecuting(proc[i].thr[j])}

\* ------------------------------------------------ download_tabular_resources

\* Mutant: the loop has no `except Exception` clause.
ParentDispositionNoHandler(e) ==
    IF e = "KeyboardInterrupt" THEN "reraise" ELSE "propagate"

\* The try around future.result(): KeyboardInterrupt is re-raised, any other
\* Exception is logged.
ParentDisposition(e) ==
    IF e = "KeyboardInterrupt" THEN "reraise"
    ELSE IF IsException(e) THEN "log"
    ELSE "propagate"

\* ------------------------------------------------------------------- Init

NoSummary == [logged |-> FALSE, succeeded |-> 0, attempted |-> 0]

\* No catalog was queried yet.
NoPortal == [packages |-> <<>>, failing |-> {}]

\* A catalog of up to MaxRefs packages that answers every search.
CleanPortals == {[packages |-> Catalog(n), failing |-> {}] : n \in 0..MaxRefs}

\* The name of a run directory is time.strftime("%y%m%d_%H_%M_%S"): names
\* sort as the times they were taken at. A name is modelled as the rank of
\* its time; the runs found on entry are 1..n and this run is later than all.
ThisRun == MaxPriorRuns + 1

PriorRunSets == {1..n : n \in 0..MaxPriorRuns}

\* No Socrata _process_task and no get_dataset call is under way.
NoPool == [at |-> "none"]
NoQuery == [at |-> "none"]

\* What no action has touched yet when ckan_download_datasets is entered.
Fresh ==
    /\ catalogCalls = 0
    /\ work = <<>>
    /\ proc = <<>>
    /\ collected = {}
    /\ success_count = 0
    /\ errlog = <<>>
    /\ resp = [i \in Ids |-> NoResponse]
    /\ visits = [i \in Ids |-> 0]
    /\ files = [i \in Ids |-> "none"]
    /\ conn = [i \in Ids |-> "none"]
    /\ portal = NoPortal
    /\ searches = <<>>
    /\ interrupts = 0
    /\ raised = ""
    /\ summary = NoSummary
    /\ sweeps = {}
    /\ pool = NoPool
    /\ query = NoQuery

\* The run's own log directory, created on entry, is the only one there.
FirstRun == priorRuns = {} /\ logRoot = {ThisRun}

Init ==
    /\ pc = "start"
    /\ cfg \in Configs
    /\ \E d \in DiskStates : rscFile = d[1] /\ metaFile = d[2]
    /\ diskAtStart = <<rscFile, metaFile>>
    /\ rsc_url = <<>>
    /\ metadata = <<>>
    /\ Fresh
    /\ FirstRun

\* ------------------------------------------------- ckan_download_datasets

\* Mutant: the cache is never looked for.
ResumeSignalIgnored == FALSE

\* if rsc_url_path.exists():
ResumeSignal == rscFile.exists

\* Mutant: json.load returns an empty document for a file that is not JSON.
ParsesAnything(f) == TRUE

\* json.load(file) returns (it raises JSONDecodeError otherwise).
Parses(f) == f.valid

\* The cache exists: both documents are read with json.load.
LoadState ==
    /\ pc = "start"
    /\ ResumeSignal
    /\ IF ~Parses(rscFile)
       THEN /\ pc' = "crashed" /\ raised' = "JSONDecodeError"
            /\ UNCHANGED <<rsc_url, metadata>>
       ELSE IF ~metaFile.exists
       THEN /\ pc' = "crashed" /\ raised' = "FileNotFoundError"
            /\ UNCHANGED <<rsc_url, metadata>>
       ELSE IF ~Parses(metaFile)
       THEN /\ pc' = "crashed" /\ raised' = "JSONDecodeError"
            /\ UNCHANGED <<rsc_url, metadata>>
       ELSE /\ pc' = "resolved"
            /\ rsc_url' = JsonLoadRefs(rscFile.content)
            /\ metadata' = metaFile.content
            /\ UNCHANGED raised
    /\ UNCHANGED <<logs, socrata, cfg, rscFile, metaFile, diskAtStart, portal, searches, catalogCalls,
                   work, proc, collected, success_count, errlog, resp, visits, files,
                   conn, interrupts, summary>>

\* else: rsc_url, metadata = fetch_metadata(cfg, client), against the catalog
\* as it is when queried, one of portals.
FetchState(portals) ==
    /\ pc = "start"
    /\ ~ResumeSignal
    /\ \E p \in portals :
          LET got == FetchMetadata(p, cfg)
          IN  /\ portal' = p
              /\ searches' = searches \o SearchesMade(p, cfg)
              /\ catalogCalls' = catalogCalls + Len(SearchesMade(p, cfg))
              /\ IF FilterRaises(p, cfg)
                 THEN /\ pc' = "crashed" /\ raised' = "PredicateException"
                      /\ UNCHANGED <<rsc_url, metadata>>
                 ELSE /\ rsc_url' = got.rsc_url
                      /\ metadata' = got.metadata
                      /\ pc' = "resolved"
                      /\ UNCHANGED raised
    /\ UNCHANGED <<logs, socrata, cfg, rscFile, metaFile, diskAtStart, work, proc,
                   collected, success_count, errlog, resp, visits, files, conn,
                   interrupts, summary>>

\* Mutant: the ref list is not written before the download.
PersistStateWithoutRefs ==
    /\ pc = "resolved"
    /\ IF cfg.save_metadata
       THEN /\ metaFile' = StoredFile(metadata)
            /\ UNCHANGED rscFile
       ELSE UNCHANGED <<rscFile, metaFile>>
    /\ pc' = "ready"
    /\ UNCHANGED <<logs, socrata, cfg, diskAtStart, portal, searches, catalogCalls, rsc_url, metadata,
                   work, proc, collected, success_count, errlog, resp, visits, files,
                   conn, interrupts, raised, summary>>

\* if cfg.save_metadata: both documents are written with json.dump.
PersistState ==
    /\ pc = "resolved"
    /\ IF cfg.save_metadata
       THEN /\ metaFile' = StoredFile(metadata)
            /\ rscFile' = StoredFile(JsonDumpRefs(rsc_url))
       ELSE UNCHANGED <<rscFile, metaFile>>
    /\ pc' = "ready"
    /\ UNCHANGED <<logs, socrata, cfg, diskAtStart, portal, searches, catalogCalls, rsc_url, metadata,
                   work, proc, collected, success_count, errlog, resp, visits, files,
                   conn, interrupts, raised, summary>>

\* init_logger's retention: the names under log_directory.parent sorted in
\* descending order, all but the first Retained removed with shutil.rmtree.
\* The listing is taken when init_logger is called, the caller's own run
\* directory included.
Sweep(dirs) == {d \in dirs : Cardinality({e \in dirs : e > d}) < Retained}

\* download_tabular_resources up to the submission of one _process_task per
\* chunk; it opens with init_logger(cfg.log_folder_path).
StartDownload ==
    /\ pc = "ready"
    /\ logRoot' = Sweep(logRoot)
    /\ sweeps' = sweeps \cup {0}
    /\ IF OuterSplitRaises(rsc_url, cfg.max_process_workers)
       THEN /\ pc' = "crashed" /\ raised' = "ValueError"
            /\ UNCHANGED <<work, proc>>
       ELSE /\ work' = OuterSplit(rsc_url, cfg.max_process_workers)
            /\ proc' = [i \in DOMAIN work' |-> QueuedProc]
            /\ pc' = "downloading"
            /\ UNCHANGED raised
    /\ UNCHANGED <<socrata, priorRuns, cfg, rscFile, metaFile, diskAtStart, portal, searches,
                   catalogCalls, rsc_url, metadata, collected, success_count, errlog, resp, visits,
                   files, conn, interrupts, summary>>

\* -------------------------------------------------------- the outer tier

\* What the download phase never changes.
resolved == <<cfg, rscFile, metaFile, diskAtStart, portal, searches, catalogCalls,
              rsc_url, metadata, work>>

\* The pools keep executing submitted tasks while the run is downloading and
\* while an exception leaves the `with` block (shutdown(wait=True)).
PoolsAlive == pc \in {"downloading", "aborting"}

FailedTasks == {i \in DOMAIN proc : proc[i].exc = "OSError"}

\* Mutant: one process per chunk, whatever max_process_workers.
ProcessWorkerAlwaysFree == TRUE

\* ProcessPoolExecutor(cfg.max_process_workers): a free worker process takes
\* the queued task.
ProcessWorkerFree == Cardinality(RunningProcs) < cfg.max_process_workers

\* _process_task from its start to the submission of its thread tasks. It
\* opens with init_logger(cfg.log_folder_path), which sweeps the shared log
\* root again and may raise.
ProcStart(i) ==
    /\ PoolsAlive
    /\ logRoot' = Sweep(logRoot)
    /\ sweeps' = sweeps \cup {i}
    /\ proc[i].st = "queued"
    /\ ProcessWorkerFree
    /\ \E logger_ok \in {TRUE} \cup {FALSE : n \in 1..(MaxTaskFailures - Cardinality(FailedTasks))} :
          proc' = [proc EXCEPT ![i] =
                     IF logger_ok
                     THEN LET w == InnerSplit(work[i], cfg.max_thread_workers)
                          IN  [@ EXCEPT !.st = "running", !.work = w,
                                        !.thr = [j \in DOMAIN w |-> QueuedThread(w[j])]]
                     ELSE [@ EXCEPT !.st = "raised", !.exc = "OSError"]]
    /\ UNCHANGED <<pc, conn, socrata, priorRuns, resolved, collected, success_count, errlog, resp, visits,
                   files, interrupts, raised, summary>>

\* ThreadPoolExecutor(cfg.max_thread_workers): a free worker thread takes the
\* queued task.
ThreadWorkerFree(i) == Cardinality(RunningThreads(i)) < cfg.max_thread_workers

\* _thread_task down to its loop: http = PoolManager(headers=cfg.http_headers),
\* a new client of the task's own, named here by the task.
ThreadStart(i, j) ==
    /\ PoolsAlive
    /\ Executing(proc[i])
    /\ proc[i].thr[j].st = "queued"
    /\ ThreadWorkerFree(i)
    /\ proc' = [proc EXCEPT ![i].thr[j].st =
                                IF Len(proc[i].thr[j].chunk) = 0 THEN "done" ELSE "running",
                            ![i].thr[j].http = <<i, j>>]
    /\ UNCHANGED <<pc, conn, logs, socrata, resolved, collected, success_count, errlog, resp, visits,
                   files, interrupts, raised, summary>>

\* One iteration of _thread_task's loop: the GET, the checks, the streaming,
\* the handler. The server's answer is the environment's choice among answers.
Fetch(i, j, answers) ==
    /\ PoolsAlive
    /\ Executing(proc[i])
    /\ proc[i].thr[j].st = "running"
    /\ LET t == proc[i].thr[j]
           id == t.chunk[t.pos + 1].id
       IN  \E r \in answers :
              /\ resp' = [resp EXCEPT ![id] = r]
              /\ visits' = [visits EXCEPT ![id] = @ + 1]
              /\ IF FetchBlocks(r, cfg)
                 THEN /\ proc' = [proc EXCEPT ![i].thr[j].st = "blocked"]
                      /\ UNCHANGED <<files, conn>>
                 ELSE /\ proc' = [proc EXCEPT ![i].thr[j] =
                                     ThreadHandle(t, FetchResult(r, cfg), id)]
                      /\ files' = [files EXCEPT ![id] = FileAfter(r, cfg, @)]
                      /\ conn' = [conn EXCEPT ![id] = ConnAfter(r, cfg, @)]
    /\ UNCHANGED <<pc, logs, socrata, resolved, collected, success_count, errlog, interrupts,
                   raised, summary>>

\* A KeyboardInterrupt raised inside the try block while the request of the
\* next resource is under way.
InterruptFetch(i, j) ==
    /\ PoolsAlive
    /\ Executing(proc[i])
    /\ proc[i].thr[j].st = "running"
    /\ interrupts < MaxInterrupts
    /\ interrupts' = interrupts + 1
    /\ LET t == proc[i].thr[j]
           id == t.chunk[t.pos + 1].id
       IN  /\ visits' = [visits EXCEPT ![id] = @ + 1]
           /\ proc' = [proc EXCEPT ![i].thr[j] = ThreadHandle(t, "KeyboardInterrupt", id)]
    /\ UNCHANGED <<pc, conn, logs, socrata, resolved, collected, success_count, errlog, resp, files,
                   raised, summary>>

\* One turn of `for future in as_completed(futures)` in _process_task; after
\* the last one the `with` block is left and success_count returned.
ProcCollect(i, j) ==
    /\ PoolsAlive
    /\ proc[i].st = "running"
    /\ j \notin proc[i].collected
    /\ ThreadFinished(proc[i].thr[j])
    /\ LET p == proc[i]
           t == p.thr[j]
           after == IF p.collected \cup {j} = DOMAIN p.thr THEN "returned" ELSE "running"
       IN  proc' = [proc EXCEPT ![i] =
                      IF t.st = "done"
                      THEN [p EXCEPT !.collected = @ \cup {j},
                                     !.success_count = @ + t.success_count,
                                     !.errors = @ \cup Range(t.errors),
                                     !.st = after]
                      ELSE IF ProcHandlerCatches(t.exc)
                      THEN [p EXCEPT !.collected = @ \cup {j},
                                     !.errors = @ \cup {[type |-> t.exc, id |-> <<>>]},
                                     !.st = after]
                      ELSE [p EXCEPT !.collected = @ \cup {j},
                                     !.st = "exiting", !.exc = t.exc]]
    /\ UNCHANGED <<pc, conn, logs, socrata, resolved, collected, success_count, errlog, resp, visits,
                   files, interrupts, raised, summary>>

\* A KeyboardInterrupt in the main thread of a worker process, waiting in
\* as_completed.
InterruptProc(i) ==
    /\ PoolsAlive
    /\ proc[i].st = "running"
    /\ interrupts < MaxInterrupts
    /\ interrupts' = interrupts + 1
    /\ proc' = [proc EXCEPT ![i].st = "exiting", ![i].exc = "KeyboardInterrupt"]
    /\ UNCHANGED <<pc, conn, logs, socrata, resolved, collected, success_count, errlog, resp, visits,
                   files, raised, summary>>

\* An exception leaves the thread pool's `with` block once shutdown(wait=True)
\* has seen every thread task finish.
ProcRaise(i) ==
    /\ PoolsAlive
    /\ proc[i].st = "exiting"
    /\ \A j \in DOMAIN proc[i].thr : ThreadFinished(proc[i].thr[j])
    /\ proc' = [proc EXCEPT ![i].st = "raised"]
    /\ UNCHANGED <<pc, conn, logs, socrata, resolved, collected, success_count, errlog, resp, visits,
                   files, interrupts, raised, summary>>

\* One turn of `for future in as_completed(futures)` in download_tabular_resources.
Collect(i) ==
    /\ pc = "downloading"
    /\ i \notin collected
    /\ Finished(proc[i])
    /\ collected' = collected \cup {i}
    /\ IF proc[i].st = "returned"
       THEN /\ success_count' = success_count + proc[i].success_count
            /\ UNCHANGED <<pc, errlog, raised>>
       ELSE IF ParentDisposition(proc[i].exc) = "log"
       THEN /\ errlog' = Append(errlog, proc[i].exc)
            /\ UNCHANGED <<pc, success_count, raised>>
       ELSE /\ pc' = "aborting"
            /\ raised' = proc[i].exc
            /\ UNCHANGED <<success_count, errlog>>
    /\ UNCHANGED <<conn, logs, socrata, resolved, proc, resp, visits, files, interrupts, summary>>

\* A KeyboardInterrupt in the main thread of the orchestrator, waiting in
\* as_completed.
InterruptCollect ==
    /\ pc = "downloading"
    /\ interrupts < MaxInterrupts
    /\ interrupts' = interrupts + 1
    /\ pc' = "aborting"
    /\ raised' = "KeyboardInterrupt"
    /\ UNCHANGED <<conn, logs, socrata, resolved, proc, collected, success_count, errlog, resp, visits,
                   files, summary>>

\* The exception leaves the process pool's `with` block once shutdown(wait=True)
\* has seen every submitted task finish.
ExitPool ==
    /\ pc = "aborting"
    /\ \A i \in DOMAIN proc : Finished(proc[i])
    /\ pc' = "crashed"
    /\ UNCHANGED <<conn, logs, socrata, resolved, proc, collected, success_count, errlog, resp, visits,
                   files, interrupts, raised, summary>>

\* Mutant: the loop stops at the first completed future.
FirstReported == collected # {}

\* Every future was consumed: the total is logged and the function returns.
AllReported == collected = DOMAIN work

Summarize ==
    /\ pc = "downloading"
    /\ AllReported
    /\ summary' = [logged |-> TRUE, succeeded |-> success_count, attempted |-> Len(rsc_url)]
    /\ pc' = "done"
    /\ UNCHANGED <<conn, logs, socrata, resolved, proc, collected, success_count, errlog, resp, visits,
                   files, interrupts, raised>>

\* ------------------------------------------------------------------- Spec

\* A whole run that no one interrupts.
Next ==
    \/ LoadState
    \/ FetchState(CleanPortals)
    \/ PersistState
    \/ StartDownload
    \/ \E i \in DOMAIN proc : ProcStart(i)
    \/ \E i \in DOMAIN proc : \E j \in DOMAIN proc[i].thr : ThreadStart(i, j)
    \/ \E i \in DOMAIN proc : \E j \in DOMAIN proc[i].thr : Fetch(i, j, CoarseResponses)
    \/ \E i \in DOMAIN proc : \E j \in DOMAIN proc[i].thr : ProcCollect(i, j)
    \/ \E i \in DOMAIN proc : Collect(i)
    \/ Summarize

Spec == Init /\ [][Next]_vars

\* ------------------------------------------------------------------ FSpec

\* download_tabular_resources called with a resolved list of up to MaxRefs refs.
DownloadInit ==
    /\ pc = "ready"
    /\ cfg \in {c \in Configs : ~c.save_metadata}
    /\ rscFile = AbsentFile
    /\ metaFile = AbsentFile
    /\ diskAtStart = <<rscFile, metaFile>>
    /\ \E n \in 0..MaxRefs : rsc_url = Refs(n)
    /\ metadata = <<>>
    /\ Fresh
    /\ FirstRun

\* The download with every kind of answer, not interrupted.
FNext ==
    \/ StartDownload
    \/ \E i \in DOMAIN proc : ProcStart(i)
    \/ \E i \in DOMAIN proc : \E j \in DOMAIN proc[i].thr : ThreadStart(i, j)
    \/ \E i \in DOMAIN proc : \E j \in DOMAIN proc[i].thr : Fetch(i, j, Responses)
    \/ \E i \in DOMAIN proc : \E j \in DOMAIN proc[i].thr : ProcCollect(i, j)
    \/ \E i \in DOMAIN proc : Collect(i)
    \/ Summarize

FSpec == DownloadInit /\ [][FNext]_vars

\* ------------------------------------------------------------------ ESpec

\* A catalog of three packages: A with one resource the caller's predicate
\* accepts, B with one it rejects, C with two it accepts.
ScenarioPortal ==
    [packages |->
        <<[resources |-> <<CatalogResource(1)>>, matches |-> TRUE],
          [resources |-> <<[CatalogResource(2) EXCEPT !.accepted = FALSE]>>, matches |-> TRUE],
          [resources |-> <<CatalogResource(3), CatalogResource(4)>>, matches |-> TRUE]>>,
     failing |-> {}]

\* A complete body, or a declared Content-Length above cfg.max_resource_size.
Complete == [status |-> 200, clen |-> -1, body |-> "ok", size |-> 1]
Oversized == [status |-> 200, clen |-> MaxResourceSize + 1, body |-> "ok", size |-> MaxResourceSize + 1]

\* A whole run, from an empty metadata/ directory, against that catalog.
EInit ==
    /\ pc = "start"
    /\ cfg \in Configs
    /\ rscFile = AbsentFile
    /\ metaFile = AbsentFile
    /\ diskAtStart = <<rscFile, metaFile>>
    /\ rsc_url = <<>>
    /\ metadata = <<>>
    /\ Fresh
    /\ FirstRun

ENext ==
    \/ FetchState({ScenarioPortal})
    \/ PersistState
    \/ StartDownload
    \/ \E i \in DOMAIN proc : ProcStart(i)
    \/ \E i \in DOMAIN proc : \E j \in DOMAIN proc[i].thr : ThreadStart(i, j)
    \/ \E i \in DOMAIN proc : \E j \in DOMAIN proc[i].thr : Fetch(i, j, {Complete, Oversized})
    \/ \E i \in DOMAIN proc : \E j \in DOMAIN proc[i].thr : ProcCollect(i, j)
    \/ \E i \in DOMAIN proc : Collect(i)
    \/ Summarize

ESpec == EInit /\ [][ENext]_vars

\* ------------------------------------------------------------------ LSpec

\* ckan_download_datasets down to the resume test: the run's log directory
\* log/download/<time> is created (mkdir with exist_ok) before anything else.
EnterRun ==
    /\ pc = "enter"
    /\ logRoot' = logRoot \cup {ThisRun}
    /\ pc' = "start"
    /\ UNCHANGED <<socrata, priorRuns, sweeps, conn, resolved, proc, collected, success_count,
                   errlog, resp, visits, files, interrupts, raised, summary>>

\* A run entered with earlier runs' directories under log/download and a
\* cache to resume from, followed until its outer tasks have started.
LInit ==
    /\ pc = "enter"
    /\ cfg \in Configs
    /\ \E n \in 0..MaxRefs :
          /\ rscFile = StoredFile(CachedRefs(n))
          /\ metaFile = StoredFile(CachedMetadata(n))
    /\ diskAtStart = <<rscFile, metaFile>>
    /\ rsc_url = <<>>
    /\ metadata = <<>>
    /\ Fresh
    /\ priorRuns \in PriorRunSets
    /\ logRoot = priorRuns

LNext ==
    \/ EnterRun
    \/ LoadState
    \/ PersistState
    \/ StartDownload
    \/ \E i \in DOMAIN proc : ProcStart(i)

LSpec == LInit /\ [][LNext]_vars

\* ------------------------------------------------------------------ SSpec

\* The streamer on its own: one outer and one inner worker fetch the list in
\* order, against every kind of answer.
SInit == DownloadInit /\ cfg.max_process_workers = 1 /\ cfg.max_thread_workers = 1

SNext ==
    \/ StartDownload
    \/ \E i \in DOMAIN proc : ProcStart(i)
    \/ \E i \in DOMAIN proc : \E j \in DOMAIN proc[i].thr : ThreadStart(i, j)
    \/ \E i \in DOMAIN proc : \E j \in DOMAIN proc[i].thr : Fetch(i, j, StreamResponses)
    \/ \E i \in DOMAIN proc : \E j \in DOMAIN proc[i].thr : ProcCollect(i, j)
    \/ \E i \in DOMAIN proc : Collect(i)
    \/ Summarize

SSpec == SInit /\ [][SNext]_vars

\* ------------------------------------------------------------------ ISpec

\* The download of a config that sets a request timeout, interrupted by the
\* user at most MaxInterrupts times.
IInit == DownloadInit /\ cfg.timeout

INext ==
    \/ StartDownload
    \/ \E i \in DOMAIN proc : ProcStart(i)
    \/ \E i \in DOMAIN proc : \E j \in DOMAIN proc[i].thr : ThreadStart(i, j)
    \/ \E i \in DOMAIN proc : \E j \in DOMAIN proc[i].thr : Fetch(i, j, CoarseResponses)
    \/ \E i \in DOMAIN proc : \E j \in DOMAIN proc[i].thr : ProcCollect(i, j)
    \/ \E i \in DOMAIN proc : ProcRaise(i)
    \/ \E i \in DOMAIN proc : Collect(i)
    \/ ExitPool
    \/ Summarize
    \/ \E i \in DOMAIN proc : \E j \in DOMAIN proc[i].thr : InterruptFetch(i, j)
    \/ \E i \in DOMAIN proc : InterruptProc(i)
    \/ InterruptCollect

ISpec == IInit /\ [][INext]_vars

\* ------------------------------------------------------------------ PSpec

\* The splits alone, for the worker counts and list lengths of interest:
\* N in {0, 1, k1 - 1, k1, k1 * k2 + 3}.
SplitLengths(k1, k2) == {0, 1, k1 - 1, k1, k1 * k2 + 3}

PInit ==
    /\ pc = "ready"
    /\ \E k1 \in 1..MaxSplitWorkers, k2 \in 1..MaxSplitWorkers :
          /\ cfg = [max_process_workers |-> k1, max_thread_workers |-> k2,
                    save_metadata |-> FALSE, timeout |-> FALSE,
                    max_resource_size |-> MaxResourceSize,
                    batch_fetch_metadata |-> BatchSize,
                    max_datasets |-> MaxRefs + 1, from_dataset_index |-> 0,
                    save_with_resource_name |-> TRUE]
          /\ \E n \in SplitLengths(k1, k2) : rsc_url = Refs(n)
    /\ rscFile = AbsentFile
    /\ metaFile = AbsentFile
    /\ diskAtStart = <<rscFile, metaFile>>
    /\ metadata = <<>>
    /\ Fresh
    /\ FirstRun

\* _process_task's own split of its chunk, without the pool.
InnerPartition(i) ==
    /\ pc = "downloading"
    /\ proc[i].st = "queued"
    /\ proc' = [proc EXCEPT ![i].st = "split",
                            ![i].work = InnerSplit(work[i], cfg.max_thread_workers)]
    /\ UNCHANGED <<pc, conn, logs, socrata, resolved, collected, success_count, errlog, resp, visits,
                   files, interrupts, raised, summary>>

PNext ==
    \/ StartDownload
    \/ \E i \in DOMAIN proc : InnerPartition(i)

PSpec == PInit /\ [][PNext]_vars

\* ------------------------------------------------------------------ RSpec

\* The strings of at most n characters of alphabet.
Strings(alphabet, n) == UNION {[1..k -> alphabet] : k \in 0..n}

\* fetch_metadata's own parameters, over their small values.
ResolverConfigs ==
    [max_process_workers : {1},
     max_thread_workers : {1},
     save_metadata : {FALSE},
     timeout : {FALSE},
     max_resource_size : {MaxResourceSize},
     batch_fetch_metadata : 1..BatchSize,
     max_datasets : 1..MaxPackages,
     from_dataset_index : 0..1,
     save_with_resource_name : BOOLEAN]

\* Catalogs of up to MaxPackages one-resource packages, some of which match
\* the caller's search filters, and whose k-th page search raises for k in
\* failing.
PagedPortals ==
    UNION {{[packages |-> [p \in 1..n |-> [resources |-> <<CatalogResource(p)>>,
                                            matches |-> flags[p]]],
             failing |-> f] : flags \in [1..n -> BOOLEAN], f \in SUBSET (1..MaxPackages)}
           : n \in 0..MaxPackages}

\* One package of two resources: ids that are empty, plain, or equal once
\* cleaned; urls present or empty; accepted by the caller's predicate or not.
ContentResources ==
    [id : {<<>>, Id(1), <<Slash>>, <<Underscore>>}, name : {<<>>}, url : {0, 1},
     accepted : BOOLEAN, raises : {FALSE}]

ContentPortals ==
    {[packages |-> <<[resources |-> <<r1, r2>>, matches |-> TRUE]>>, failing |-> {}]
        : r1 \in ContentResources, r2 \in ContentResources}

\* One package of one resource, over every raw id and display name.
NamingPortals ==
    {[packages |-> <<[resources |-> <<[id |-> id, name |-> name, url |-> 1,
                                       accepted |-> TRUE, raises |-> FALSE]>>,
                      matches |-> TRUE]>>,
      failing |-> {}]
        : id \in Strings({Chr(1), Colon, Slash}, MaxIdLen),
          name \in Strings({Chr(1), Colon, Space}, MaxIdLen)}

\* What cfg.filter_resource_metadata(resource) does with a resource: it
\* returns true, returns false, or raises (a predicate on resource["format"]
\* given a resource without one).
PredicateOutcomes ==
    {[accepted |-> TRUE, raises |-> FALSE], [accepted |-> FALSE, raises |-> FALSE],
     [accepted |-> FALSE, raises |-> TRUE]}

\* Catalogs of up to MaxPackages packages of two resources each, over what
\* the caller's predicate does with each resource.
FilteringPortals ==
    UNION {{[packages |-> [p \in 1..n |->
                             [resources |->
                                 <<[id |-> Id(2 * p - 1), name |-> <<>>, url |-> 2 * p - 1,
                                    accepted |-> o[p][1].accepted, raises |-> o[p][1].raises],
                                   [id |-> Id(2 * p), name |-> <<>>, url |-> 2 * p,
                                    accepted |-> o[p][2].accepted, raises |-> o[p][2].raises]>>,
                              matches |-> TRUE]],
             failing |-> {}] : o \in [1..n -> PredicateOutcomes \X PredicateOutcomes]}
           : n \in 1..MaxPackages}

ResolverPortals == PagedPortals \cup ContentPortals \cup NamingPortals \cup FilteringPortals

\* ckan_download_datasets entered with an empty metadata/ directory.
RInit ==
    /\ pc = "start"
    /\ cfg \in ResolverConfigs
    /\ rscFile = AbsentFile
    /\ metaFile = AbsentFile
    /\ diskAtStart = <<rscFile, metaFile>>
    /\ rsc_url = <<>>
    /\ metadata = <<>>
    /\ Fresh
    /\ FirstRun

RNext == FetchState(ResolverPortals)

RSpec == RInit /\ [][RNext]_vars

\* ----------------------------------------------------------------- claims

\* The refs the inner workers are handed, in chunk order.
SubChunkRefs == Flatten([i \in DOMAIN proc |-> Flatten(proc[i].work)])
AllSplit == pc = "downloading" /\ \A i \in DOMAIN proc : proc[i].st = "split"

\* C1: for every k1, k2 >= 1 and every list of N refs, N in {0, 1, k1 - 1,
\* k1, k1 * k2 + 3}, the outer and inner splits complete, and the sub-chunks
\* put end to end are the input list: every ref once, none dropped.
C1_SplitsCoverEveryRefOnce ==
    /\ raised # "ValueError"
    /\ AllSplit => SubChunkRefs = rsc_url

\* What the claims read off a state.
AllThreads == UNION {{<<i, j>> : j \in DOMAIN proc[i].thr} : i \in DOMAIN proc}
Thread(x) == proc[x[1]].thr[x[2]]
\* The exception types the inner workers recorded for resource id.
ThreadErrors(id) ==
    {e.type : e \in {f \in UNION {Range(Thread(x).errors) : x \in AllThreads} : f.id = id}}
\* An inner worker has finished its iteration for resource id.
Processed(id) ==
    \E x \in AllThreads : \E k \in 1..Thread(x).pos : Thread(x).chunk[k].id = id
Outcome(id) ==
    IF ThreadErrors(id) # {} THEN CHOOSE e \in ThreadErrors(id) : TRUE
    ELSE IF Processed(id) THEN "success"
    ELSE "pending"
RefPairs(refs) == [k \in DOMAIN refs |-> <<refs[k].id, refs[k].url>>]
CacheAtStart == diskAtStart[1].exists
InFlight == Cardinality({x \in AllThreads : ThreadExecuting(Thread(x))})

\* C2: when rsc_url.json exists as the run starts, the catalog client is never
\* called, and the refs and kept metadata the run goes on with, and the only
\* resources it requests, are those of the files.
C2_ResumeNeverCallsCatalog ==
    CacheAtStart =>
        /\ catalogCalls = 0
        /\ (pc # "start" /\ raised \notin {"JSONDecodeError", "FileNotFoundError"}) =>
              /\ RefPairs(rsc_url) = RefPairs(diskAtStart[1].content)
              /\ metadata = diskAtStart[2].content
        /\ \A id \in Ids :
              visits[id] > 0 => \E k \in DOMAIN diskAtStart[1].content :
                                   diskAtStart[1].content[k].id = id

C2_ResumedRunDownloads ==
    CacheAtStart /\ pc = "done" /\ summary.succeeded > 0

\* C3: a resource answered with a status >= 400 is recorded as an HTTP error
\* and not as a success, and it changes nothing for the others: once an outer
\* worker has returned, every resource of its chunk was requested exactly once,
\* its success count is the number of its resources that succeeded, and two
\* resources that got the same answer have the same outcome.
C3_HttpErrorIsolated ==
    /\ \A i \in DOMAIN proc :
          proc[i].st = "returned" =>
             /\ \A k \in DOMAIN work[i] :
                   LET id == work[i][k].id
                   IN  /\ visits[id] = 1
                       /\ Processed(id)
                       /\ resp[id].status >= 400 =>
                             /\ Outcome(id) = "HTTPResourceError"
                             /\ [type |-> "HTTPResourceError", id |-> id] \in proc[i].errors
             /\ proc[i].success_count =
                   Cardinality({k \in DOMAIN work[i] : Outcome(work[i][k].id) = "success"})
    /\ \A a, b \in Ids :
          (Processed(a) /\ Processed(b) /\ resp[a] = resp[b]) => Outcome(a) = Outcome(b)

C3_SuccessAfterHttpError ==
    \E x \in AllThreads :
        /\ proc[x[1]].st = "returned"
        /\ Len(Thread(x).chunk) >= 2
        /\ resp[Thread(x).chunk[1].id].status = 404
        /\ Outcome(Thread(x).chunk[2].id) = "success"

DeclaresTooLarge(id) == resp[id].clen > cfg.max_resource_size

\* C4 as stated: a resource whose response declares a Content-Length above
\* max_resource_size gets no file and the too-large outcome.
C4_TooLargeOutcome ==
    \A id \in Ids :
        DeclaresTooLarge(id) =>
            files[id] = "none" /\ Outcome(id) = "TooLargeResourceError"

\* C4, amended: such a resource gets no file and is a failure, the too-large
\* one when its status is below 400 and the HTTP error otherwise (the status
\* is checked first).
C4_TooLargeNotWritten ==
    \A id \in Ids :
        DeclaresTooLarge(id) =>
            /\ files[id] = "none"
            /\ Outcome(id) = IF resp[id].status >= 400 THEN "HTTPResourceError"
                             ELSE "TooLargeResourceError"

C4_TooLargeSeen ==
    \E id \in Ids :
        /\ DeclaresTooLarge(id)
        /\ resp[id].status = 200
        /\ Outcome(id) = "TooLargeResourceError"
        /\ files[id] = "none"

\* C5: a run that is not interrupted and finds no broken state file reaches
\* its end with the summary, for every ref list and every outcome of the
\* fetches: it is never left by another exception.
C5_RunEndsWithSummary ==
    pc = "crashed" => raised \in {"KeyboardInterrupt", "JSONDecodeError", "FileNotFoundError"}

\* C6: the final total is logged, and download_tabular_resources returns, only
\* when every outer task has finished (returned or raised) and its future was
\* consumed.
C6_SummaryAfterAllReported ==
    (summary.logged \/ pc = "done") =>
        \A i \in DOMAIN proc : Finished(proc[i]) /\ i \in collected

C6_SummaryWithFailedPartition ==
    /\ summary.logged
    /\ \E i \in DOMAIN proc : proc[i].st = "raised"
    /\ \E i \in DOMAIN proc : proc[i].st = "returned"

\* C7: at most max_process_workers outer tasks execute at once, in each at
\* most max_thread_workers inner tasks, so at most their product in all,
\* however many chunks the splits made.
C7_BoundedFanOut ==
    /\ Cardinality(RunningProcs) <= cfg.max_process_workers
    /\ \A i \in DOMAIN proc : Cardinality(RunningThreads(i)) <= cfg.max_thread_workers
    /\ InFlight <= cfg.max_process_workers * cfg.max_thread_workers

C7_PoolSaturated ==
    /\ Len(work) > cfg.max_process_workers
    /\ cfg.max_process_workers > 1
    /\ InFlight = cfg.max_process_workers * cfg.max_thread_workers
    /\ \E i \in DOMAIN proc : proc[i].st = "queued"

\* C8: a fetch the server never answers ends within its budget as a failure
\* of that resource, so no inner worker waits forever and a run that is
\* downloading can always go on.
C8_FetchBudgetExpires ==
    /\ \A x \in AllThreads : Thread(x).st # "blocked"
    /\ pc = "downloading" => ENABLED Next

\* C9: a KeyboardInterrupt is never recorded as the error of a resource or of
\* a partition, and a run that saw one logs no summary and ends by raising it.
C9_InterruptPropagates ==
    /\ \A x \in AllThreads : \A e \in Range(Thread(x).errors) : e.type # "KeyboardInterrupt"
    /\ \A i \in DOMAIN proc : \A e \in proc[i].errors : e.type # "KeyboardInterrupt"
    /\ \A k \in DOMAIN errlog : errlog[k] # "KeyboardInterrupt"
    /\ interrupts > 0 => ~summary.logged /\ pc # "done"
    /\ (interrupts > 0 /\ pc = "crashed") => raised = "KeyboardInterrupt"

C9_InterruptInFetchLeftTheRun ==
    /\ pc = "crashed"
    /\ raised = "KeyboardInterrupt"
    /\ \E x \in AllThreads : Thread(x).st = "raised"

\* C10: once the orchestrator has seen the abort, no request is issued any
\* more and no queued partition starts.
C10_NoFetchAfterAbort ==
    [][pc = "aborting" =>
          /\ visits' = visits
          /\ \A i \in DOMAIN proc : proc[i].st = "queued" => proc'[i].st = "queued"]_vars

\* What ckan_download_datasets found in metadata/ when it started.
BothAtStart == diskAtStart[1].exists /\ diskAtStart[2].exists
CorruptAtStart == \E k \in 1..2 : diskAtStart[k].exists /\ ~diskAtStart[k].valid
LoadFailed == raised \in {"FileNotFoundError", "JSONDecodeError"}
FreshResolve == ~CacheAtStart /\ pc # "start"
\* The run is past the persist step.
Persisted == pc \notin {"start", "resolved"} /\ ~LoadFailed
NothingFetched == \A id \in Ids : visits[id] = 0

\* C11: after a fresh resolve (no cache when the run started) rsc_url.json
\* holds the resolved ref list before the download starts, whatever
\* save_metadata; metadata.json is written only when save_metadata is set.
C11_RefListAlwaysPersisted ==
    (FreshResolve /\ Persisted) =>
        /\ rscFile = StoredFile(JsonDumpRefs(rsc_url))
        /\ ~cfg.save_metadata => metaFile = diskAtStart[2]

\* C12: the run skips resolution exactly when both rsc_url.json and
\* metadata.json were there when it started; with one of the two alone it
\* resolves afresh and uses neither; the refs and the kept metadata it goes on
\* with are both the files' or both the catalog's.
C12_ResumeNeedsBothFiles ==
    pc # "start" =>
        /\ (catalogCalls = 0) <=> BothAtStart
        /\ ~BothAtStart => ~LoadFailed
        /\ Persisted =>
              \/ /\ RefPairs(rsc_url) = RefPairs(diskAtStart[1].content)
                 /\ metadata = diskAtStart[2].content
                 /\ catalogCalls = 0
              \/ /\ rsc_url = FetchMetadata(portal, cfg).rsc_url
                 /\ metadata = FetchMetadata(portal, cfg).metadata
                 /\ catalogCalls > 0

\* A fatal failure of the load: nothing queried, written or fetched.
FatalLoadFailure ==
    /\ pc = "crashed"
    /\ raised = "JSONDecodeError"
    /\ catalogCalls = 0
    /\ <<rscFile, metaFile>> = diskAtStart
    /\ NothingFetched

\* C13 as stated: a state file that is there when the run starts and cannot
\* be parsed makes the run fail: no catalog query, no state file overwritten,
\* no fetch.
C13_CorruptStateIsFatal ==
    (CorruptAtStart /\ pc # "start") => FatalLoadFailure

\* C13, amended: that holds when rsc_url.json is there, the only case in which
\* the files are read; a metadata.json that cannot be parsed next to no
\* rsc_url.json is not read and the run resolves afresh.
C13_CorruptCacheIsFatal ==
    /\ (CacheAtStart /\ CorruptAtStart /\ pc # "start") => FatalLoadFailure
    /\ (~CacheAtStart /\ CorruptAtStart /\ pc # "start") =>
           catalogCalls > 0 /\ raised # "JSONDecodeError"

C13_CorruptMetadataCrashed ==
    /\ FatalLoadFailure
    /\ diskAtStart[1].valid
    /\ diskAtStart[2].exists /\ ~diskAtStart[2].valid

\* What the claims read off a resolution.
PageCalls == SubSeq(searches, 2, Len(searches))
\* The page of interval k, as the catalog serves it.
PageOffset(k) == cfg.from_dataset_index + (k - 1) * cfg.batch_fetch_metadata
PageAt(k) == PackageSearch(portal.packages, PageOffset(k), cfg.batch_fetch_metadata, FALSE).results
\* The packages the loop of fetch_metadata went through.
Fetched ==
    FetchPages(portal, cfg.from_dataset_index, 1, Len(PageCalls), cfg.batch_fetch_metadata)
RECURSIVE Survivors(_)
Survivors(pkgs) ==
    IF Len(pkgs) = 0 THEN <<>>
    ELSE AcceptedResources(Head(pkgs).resources) \o Survivors(Tail(pkgs))
RECURSIVE Sum(_)
Sum(ns) == IF Len(ns) = 0 THEN 0 ELSE Head(ns) + Sum(Tail(ns))
Examined == Sum([k \in DOMAIN PageCalls |-> PageCalls[k].returned])
TotalCount == searches[1].count

\* C14: when the search of a page raises, the next search is for the next
\* page: interval k always asks for offset from_dataset_index + (k - 1) * batch,
\* and every accepted resource of every page whose search did not raise is in
\* the result.
C14_FailedPageIsSkipped ==
    pc = "resolved" =>
        /\ \A k \in DOMAIN PageCalls : PageCalls[k].start = PageOffset(k)
        /\ \A k \in DOMAIN PageCalls :
              ~PageCalls[k].raised =>
                  \A r \in Range(Survivors(PageAt(k))) :
                      \E i \in DOMAIN rsc_url : rsc_url[i].id = ResourceId(r, cfg)

\* C15: the packages returned by the page searches, and so the kept entries,
\* are never more than min(count, max_datasets).
C15_ExaminedWithinClamp ==
    pc = "resolved" =>
        /\ Examined <= Min(TotalCount, cfg.max_datasets)
        /\ Len(metadata) <= Min(TotalCount, cfg.max_datasets)

\* C16: every search of a resolution carries the caller's filters, so every
\* ref resolved belongs to a package that matches them.
C16_PagesCarryFilters ==
    pc = "resolved" =>
        /\ \A k \in DOMAIN searches : searches[k].filtered
        /\ \A i \in DOMAIN rsc_url :
              \E k \in DOMAIN portal.packages :
                  /\ portal.packages[k].matches
                  /\ rsc_url[i] \in Range(PackageRefs(portal.packages[k], cfg))

\* The kept-metadata document the resolver is meant to build: the packages
\* with a surviving resource, each with its survivors and their number.
RECURSIVE KeptAsPruned(_)
KeptAsPruned(pkgs) ==
    IF Len(pkgs) = 0 THEN <<>>
    ELSE LET acc == AcceptedResources(Head(pkgs).resources)
         IN  (IF Len(acc) > 0
              THEN <<[resources |-> acc, num_resources |-> Len(acc)]>>
              ELSE <<>>) \o KeptAsPruned(Tail(pkgs))

\* C17: every kept entry has at least one resource, only resources that
\* survived the filtering, and num_resources their number; the kept entries
\* are the fetched packages with a survivor, pruned to their survivors.
C17_KeptEntriesArePruned ==
    pc = "resolved" =>
        /\ \A k \in DOMAIN metadata :
              /\ Len(metadata[k].resources) >= 1
              /\ \A i \in DOMAIN metadata[k].resources : Survives(metadata[k].resources[i])
              /\ metadata[k].num_resources = Len(metadata[k].resources)
        /\ metadata = KeptAsPruned(Fetched)

\* The places where s can be split at a "::".
Splits(s) == {i \in 1..(Len(s) - 1) : s[i] = Colon /\ s[i + 1] = Colon}
HasSeparator(s) == Splits(s) # {}

\* C18: neither the cleaned id nor the cleaned name of a resolved resource
\* contains "::", so the resource_id of a ref splits at "::" in one way at most.
C18_SeparatorNeverInComponents ==
    pc = "resolved" =>
        /\ \A r \in Range(Survivors(Fetched)) :
              ~HasSeparator(SanitizeId(r.id)) /\ ~HasSeparator(SanitizeName(r.name))
        /\ \A i \in DOMAIN rsc_url : Cardinality(Splits(rsc_url[i].id)) <= 1

\* C19: no two refs of a resolved list have the same download destination.
C19_DestinationsDistinct ==
    pc = "resolved" =>
        \A i, j \in DOMAIN rsc_url :
            i # j => DownloadDestination(rsc_url[i].id) # DownloadDestination(rsc_url[j].id)

\* C20: once the fetch of a resource that obtained a response has reported
\* its outcome (success, status >= 400, too large, or an exception while
\* streaming), the connection of the response has been released.
C20_ConnectionReleased ==
    \A id \in Ids :
        (Processed(id) /\ resp[id] # NoResponse /\ resp[id] # NeverAnswers) =>
            conn[id] = "released"

\* C21: once a resource whose body starts with the ZIP magic bytes has been
\* fetched, no archive file is left at <id>.<format> (nor <id>.zip) and the
\* directory <id>/ of its extracted entries exists.
C21_ZipReplacedByExtraction ==
    \A id \in Ids :
        (Processed(id) /\ resp[id] = ZipResponse) =>
            files[id] = "none" /\ id \in ExtractionDirs

\* C22: a resource whose stream broke after some chunks is not a success and
\* its partial bytes are not the file at datasets/<format>/<id>.<format>.
C22_PartialFileNotFinal ==
    \A id \in Ids :
        (Processed(id) /\ resp[id].body = "ioerr" /\ StreamReached(resp[id], cfg)) =>
            Outcome(id) # "success" /\ files[id] # "partial"

\* The n most recent of a set of run directories.
MostRecent(dirs, n) == {d \in dirs : Cardinality({e \in dirs : e > d}) < n}

\* C23: a run entered with 5 earlier run directories has, once its own
\* directory is created and init_logger has swept, exactly 4 directories
\* under log/download: the 3 most recent earlier ones and its own.
C23_ThreePriorRunsKept ==
    (Cardinality(priorRuns) = 5 /\ sweeps # {}) =>
        /\ logRoot = MostRecent(priorRuns, 3) \cup {ThisRun}
        /\ Cardinality(logRoot) = 4

\* C24: the retention sweep of a run is executed by download_tabular_resources
\* once it has started and by no outer task.
C24_SweepOnlyByOrchestrator ==
    /\ pc \notin {"enter", "start", "resolved", "ready"} => 0 \in sweeps
    /\ sweeps \subseteq {0}

\* What the catalog returned to each page search of the resolution.
ReturnedPages ==
    [k \in DOMAIN PageCalls |->
        IF PageCalls[k].raised THEN <<>>
        ELSE PackageSearch(portal.packages, PageCalls[k].start, PageCalls[k].rows,
                           PageCalls[k].filtered).results]

\* The refs of an entry: its resources that pass, in the entry's order.
EntryRefs(pkg) ==
    LET kept == SelectSeq(pkg.resources, Survives)
    IN  [i \in DOMAIN kept |->
            [kind |-> "tuple", id |-> ResourceId(kept[i], cfg), url |-> kept[i].url]]

PageRefs(page) == Flatten([e \in DOMAIN page |-> EntryRefs(page[e])])

\* C25: the ref list of a resolution is fixed by what the catalog returned:
\* it is the refs of the returned pages in page order, within a page in entry
\* order, within an entry in resource order; two resolutions that get the
\* same responses therefore yield the same list in the same order.
C25_RefsInCatalogOrder ==
    pc = "resolved" =>
        rsc_url = Flatten([k \in DOMAIN ReturnedPages |-> PageRefs(ReturnedPages[k])])

\* A resolution over two non-empty pages, one of two entries, with at least
\* five refs: some entry gave two.
C25_SeveralPagesEntriesResources ==
    /\ pc = "resolved"
    /\ Cardinality({k \in DOMAIN ReturnedPages : Len(ReturnedPages[k]) > 0}) >= 2
    /\ \E k \in DOMAIN ReturnedPages : Len(ReturnedPages[k]) >= 2
    /\ Len(rsc_url) >= 5

\* The packages of every page of the resolution's range.
AllPages ==
    FetchPages(portal, cfg.from_dataset_index, 1,
               RangeLen(PackagesCount(portal, cfg), cfg.batch_fetch_metadata),
               cfg.batch_fetch_metadata)

\* C27: a resource for which the caller's predicate raises counts as
\* rejected: the resolution returns, with the refs of every other passing
\* resource of the same entry, of the later entries and of the later pages.
C27_RaisingPredicateRejects ==
    portal # NoPortal =>
        /\ pc = "resolved"
        /\ rsc_url = PageRefs(AllPages)

\* The scenario's run has ended: A's resource and one of C's two were served
\* whole, C's other one declared a Content-Length above the cap, and no
\* outer task failed as a whole.
ScenarioRan ==
    /\ pc = "done"
    /\ portal = ScenarioPortal
    /\ resp[Id(1)] = Complete
    /\ {resp[Id(3)], resp[Id(4)]} = {Complete, Oversized}
    /\ FailedTasks = {}

\* The errors the inner workers recorded, as (type, resource id) pairs.
RecordedFailures ==
    {<<e.type, e.id>> : e \in UNION {Range(Thread(x).errors) : x \in AllThreads}}

ScenarioCounts ==
    /\ summary.attempted = 3
    /\ summary.succeeded = 2
    /\ Cardinality(RecordedFailures) = 1
    /\ \A f \in RecordedFailures : f[1] = "TooLargeResourceError"

FailedCollected == {i \in collected : proc[i].st = "raised"}

\* C28: the exception of an outer task that failed as a whole is logged and
\* never leaves download_tabular_resources; the results of the other outer
\* tasks are still consumed, the run still reaches its summary, and the
\* total is the sum of the success counts of the outer tasks that returned.
C28_OuterFailureIsLogged ==
    /\ raised # "OSError"
    /\ \A i \in FailedCollected : \E k \in DOMAIN errlog : errlog[k] = proc[i].exc
    /\ Len(errlog) = Cardinality(FailedCollected)
    /\ (pc = "downloading" /\ collected = DOMAIN proc) => ENABLED Summarize
    /\ pc = "done" =>
          /\ collected = DOMAIN proc
          /\ summary.succeeded =
                Sum([i \in DOMAIN proc |->
                        IF proc[i].st = "returned" THEN proc[i].success_count ELSE 0])

C28_RunDoneDespiteFailure ==
    /\ pc = "done"
    /\ FailedCollected # {}
    /\ Len(errlog) = 1
    /\ summary.succeeded > 0

\* ceil(n / k)
Ceil(n, k) == (n + k - 1) \div k

\* C29: the outer split of a non-empty list of n refs for k outer workers
\* makes at most k contiguous chunks, each of ceil(n / k) refs but the last,
\* which may be shorter; the inner split of a chunk makes at most
\* max_thread_workers contiguous sub-chunks.
C29_CeilingChunks ==
    (pc = "downloading" /\ Len(rsc_url) > 0) =>
        LET k == cfg.max_process_workers
            size == Ceil(Len(rsc_url), k)
        IN  /\ Len(work) <= k
            /\ Flatten(work) = rsc_url
            /\ \A i \in DOMAIN work :
                  IF i < Len(work) THEN Len(work[i]) = size
                  ELSE Len(work[i]) \in 1..size
            /\ \A i \in DOMAIN proc :
                  proc[i].st = "split" =>
                      /\ Len(proc[i].work) <= cfg.max_thread_workers
                      /\ Flatten(proc[i].work) = work[i]

\* C30: a list shorter than max_process_workers, and not empty, is still
\* split, into one chunk per ref; and no chunk or sub-chunk of any split is
\* empty.
C30_ShortListStillRuns ==
    /\ (pc # "ready" /\ Len(rsc_url) \in 1..(cfg.max_process_workers - 1)) =>
          /\ pc = "downloading"
          /\ Len(work) = Len(rsc_url)
          /\ \A i \in DOMAIN work : Len(work[i]) = 1
    /\ \A i \in DOMAIN work : Len(work[i]) > 0
    /\ \A i \in DOMAIN proc : \A j \in DOMAIN proc[i].work : Len(proc[i].work[j]) > 0

\* The HTTP clients outer task i has created, and those still in use.
Clients(i) == {proc[i].thr[j].http : j \in DOMAIN proc[i].thr} \ {<<>>}
AliveClients(i) == {proc[i].thr[j].http : j \in RunningThreads(i)}

\* C31: an outer worker creates one HTTP client, every fetch of its inner
\* workers goes through it, and it never has more than one alive.
C31_OneClientPerOuterWorker ==
    \A i \in DOMAIN proc :
        /\ Cardinality(Clients(i)) <= 1
        /\ Cardinality(AliveClients(i)) <= 1

\* C32: an inner worker fetches the resources of its sub-chunk one at a
\* time, in the sub-chunk's order: every position before the current one was
\* requested once and reported one outcome, success or failure; no position
\* after the current one was requested; the current one is under way only in
\* a worker that is waiting or was interrupted; and a worker that is done
\* went through every position, whatever failed.
C32_SubChunkInOrder ==
    \A x \in AllThreads :
        LET t == Thread(x)
        IN  /\ t.pos <= Len(t.chunk)
            /\ t.success_count + Len(t.errors) = t.pos
            /\ \A k \in DOMAIN t.chunk :
                  /\ k <= t.pos => visits[t.chunk[k].id] = 1
                  /\ k > t.pos + 1 => visits[t.chunk[k].id] = 0
                  /\ (k = t.pos + 1 /\ visits[t.chunk[k].id] > 0) =>
                        t.st \in {"blocked", "raised"}
            /\ t.st = "done" => t.pos = Len(t.chunk)

C32_GoesOnAfterFailure ==
    \E x \in AllThreads :
        LET t == Thread(x)
        IN  /\ Len(t.chunk) >= 3
            /\ t.pos = 2
            /\ Len(t.errors) >= 1
            /\ t.errors[1].id = t.chunk[1].id
            /\ visits[t.chunk[2].id] = 1
            /\ visits[t.chunk[3].id] = 0

\* The download has begun: download_tabular_resources was entered.
DownloadBegun == sweeps # {}

\* The steps a run may take from one phase to the next.
PhaseSteps ==
    {<<"start", "resolved">>, <<"start", "crashed">>, <<"resolved", "ready">>,
     <<"ready", "downloading">>, <<"ready", "crashed">>, <<"downloading", "done">>}

\* C33: a run resolves (afresh or from the cache), then persists if asked
\* to, then downloads, then logs its summary, in that order only. Once the
\* download has begun the ref list is there and, with save_metadata, both
\* state files hold what was resolved; no request is issued before that, and
\* no state file is written afterwards.
C33_PhasesInOrder ==
    /\ [](DownloadBegun =>
            /\ pc \in {"downloading", "done", "crashed"}
            /\ cfg.save_metadata =>
                  /\ rscFile = StoredFile(JsonDumpRefs(rsc_url))
                  /\ metaFile = StoredFile(metadata))
    /\ []((\E id \in Ids : visits[id] > 0) => DownloadBegun /\ pc # "crashed")
    /\ [][/\ pc' # pc => <<pc, pc'>> \in PhaseSteps
          /\ DownloadBegun => rscFile' = rscFile /\ metaFile' = metaFile]_vars

C33_FreshRunPersistedThenFetched ==
    /\ pc = "done"
    /\ ~CacheAtStart
    /\ cfg.save_metadata
    /\ rscFile = StoredFile(JsonDumpRefs(rsc_url))
    /\ \E id \in Ids : visits[id] > 0

\* The whole body of the response for id was written to its file.
BodyWritten(id) == files[id] \in {"complete", "archive"}

\* C34: the body written to disk for a resource is never longer than
\* cfg.max_resource_size, with or without a Content-Length header.
C34_BytesWithinCap ==
    \A id \in Ids : BodyWritten(id) => resp[id].size <= cfg.max_resource_size

\* C35: the two outputs of a resolution agree: there are as many refs as
\* the num_resources of the kept entries add up to, and every ref has an id
\* and a url that are not empty.
C35_OutputsAgree ==
    pc = "resolved" =>
        /\ Len(rsc_url) = Sum([k \in DOMAIN metadata |-> metadata[k].num_resources])
        /\ \A i \in DOMAIN rsc_url : rsc_url[i].id # <<>> /\ rsc_url[i].url # 0

\* A resolution that kept two entries, one of two resources, and dropped a
\* resource of a returned package.
C35_KeptSomeDroppedSome ==
    /\ pc = "resolved"
    /\ Len(metadata) >= 2
    /\ \E k \in DOMAIN metadata : metadata[k].num_resources = 2
    /\ \E k \in DOMAIN ReturnedPages : \E e \in DOMAIN ReturnedPages[k] :
          \E i \in DOMAIN ReturnedPages[k][e].resources :
              ~Survives(ReturnedPages[k][e].resources[i])

\* ------------------------------------------- the state files across runs

\* The metadata/ directory as runs that ended normally leave it: empty, or
\* the pair written by an earlier run.
CleanDiskStates ==
    {<<AbsentFile, AbsentFile>>}
        \cup {<<StoredFile(CachedRefs(n)), StoredFile(CachedMetadata(n))>> : n \in 0..MaxRefs}

\* Where a KeyboardInterrupt can meet the two `with open(path, "w")` blocks
\* of lines 336-340: open() has emptied metadata.json and json.dump has not
\* finished ("metadata"), metadata.json is closed and rsc_url.json is not
\* opened yet ("between"), open() has emptied rsc_url.json and json.dump has
\* not finished ("rsc_url").
WritePoints == {"metadata", "between", "rsc_url"}

\* The two files when the interrupt arrives at point w.
InterruptedWrite(w) ==
    IF w = "metadata" THEN <<rscFile, CorruptFile>>
    ELSE IF w = "between" THEN <<rscFile, StoredFile(metadata)>>
    ELSE <<CorruptFile, StoredFile(metadata)>>

\* The run is interrupted while it writes the state files: nothing catches
\* the KeyboardInterrupt and the files stay as the interrupt found them.
InterruptPersist ==
    /\ pc = "resolved"
    /\ cfg.save_metadata
    /\ interrupts < MaxInterrupts
    /\ interrupts' = interrupts + 1
    /\ \E w \in WritePoints :
          /\ rscFile' = InterruptedWrite(w)[1]
          /\ metaFile' = InterruptedWrite(w)[2]
    /\ pc' = "crashed"
    /\ raised' = "KeyboardInterrupt"
    /\ UNCHANGED <<logs, socrata, cfg, diskAtStart, portal, searches, catalogCalls, rsc_url, metadata,
                   work, proc, collected, success_count, errlog, resp, visits, files,
                   conn, summary>>

\* ckan_download_datasets is called again on the same download_destination
\* once the run before it has ended: nothing of that run is left but the
\* files. (The interrupts are counted over all runs; the log directories
\* are left as they were.)
NextRun ==
    /\ pc \in {"ready", "crashed", "done"}
    /\ pc' = "start"
    /\ \E s \in BOOLEAN : cfg' = [cfg EXCEPT !.save_metadata = s]
    /\ diskAtStart' = <<rscFile, metaFile>>
    /\ rsc_url' = <<>>
    /\ metadata' = <<>>
    /\ catalogCalls' = 0
    /\ work' = <<>>
    /\ proc' = <<>>
    /\ collected' = {}
    /\ success_count' = 0
    /\ errlog' = <<>>
    /\ resp' = [i \in Ids |-> NoResponse]
    /\ visits' = [i \in Ids |-> 0]
    /\ files' = [i \in Ids |-> "none"]
    /\ conn' = [i \in Ids |-> "none"]
    /\ portal' = NoPortal
    /\ searches' = <<>>
    /\ raised' = ""
    /\ summary' = NoSummary
    /\ UNCHANGED <<logs, socrata, rscFile, metaFile, interrupts>>

JInit ==
    /\ pc = "start"
    /\ cfg \in Configs
    /\ \E d \in CleanDiskStates : rscFile = d[1] /\ metaFile = d[2]
    /\ diskAtStart = <<rscFile, metaFile>>
    /\ rsc_url = <<>>
    /\ metadata = <<>>
    /\ Fresh
    /\ FirstRun

JNext ==
    \/ LoadState
    \/ FetchState(CleanPortals)
    \/ PersistState
    \/ InterruptPersist
    \/ NextRun

JSpec == JInit /\ [][JNext]_vars

\* C36: a run interrupted while it writes the state files does not make a
\* later run fail on them: whenever rsc_url.json exists it is complete, and
\* metadata.json exists and is complete.
C36_InterruptedWriteRecovers ==
    /\ raised \notin {"JSONDecodeError", "FileNotFoundError"}
    /\ rscFile.exists => rscFile.valid /\ metaFile.exists /\ metaFile.valid

\* The state files hold a complete pair.
CompletePair == rscFile.exists /\ rscFile.valid /\ metaFile.exists /\ metaFile.valid

\* C37: persisting and loading the job state is a round trip and resuming
\* is idempotent on it. What a run writes is what it resolved (the same
\* pairs in the same order, and the metadata); what a resumed run loads is
\* what the files held when it started; and no step of any run, however
\* many follow one another, changes a complete pair of files, the write
\* that an interrupt cuts short excepted.
C37_RoundTripAndIdempotent ==
    /\ [](pc = "ready" /\ cfg.save_metadata =>
            /\ CompletePair
            /\ RefPairs(rscFile.content) = RefPairs(rsc_url)
            /\ metaFile.content = metadata)
    /\ [](pc \in {"resolved", "ready"} /\ CacheAtStart =>
            /\ RefPairs(rsc_url) = RefPairs(diskAtStart[1].content)
            /\ metadata = diskAtStart[2].content)
    /\ [][CompletePair /\ interrupts' = interrupts =>
            rscFile' = rscFile /\ metaFile' = metaFile]_vars

\* A resumed run loaded a list of several refs and has written the state
\* files again.
C37_ResumedAndRewritten ==
    /\ pc = "ready"
    /\ CacheAtStart
    /\ cfg.save_metadata
    /\ interrupts = 0
    /\ Len(rsc_url) >= 2
    /\ rsc_url[1].kind = "list"

\* ------------------------------------------------- Socrata _process_task

\* Datasets handed to one outer worker at most.
MaxDatasets == 3

\* Everything of the CKAN run.
ckan == <<pc, cfg, rscFile, metaFile, diskAtStart, portal, searches, catalogCalls,
          rsc_url, metadata, work, proc, collected, success_count, errlog, resp,
          visits, files, conn, interrupts, raised, summary, priorRuns, logRoot,
          sweeps>>

\* No CKAN run is under way.
CkanIdle ==
    /\ pc = "start"
    /\ cfg \in Configs
    /\ cfg.max_process_workers = 1 /\ cfg.max_thread_workers = 1
    /\ cfg.save_metadata /\ ~cfg.timeout
    /\ rscFile = AbsentFile /\ metaFile = AbsentFile
    /\ diskAtStart = <<rscFile, metaFile>>
    /\ rsc_url = <<>>
    /\ metadata = <<>>
    /\ catalogCalls = 0
    /\ work = <<>>
    /\ proc = <<>>
    /\ collected = {}
    /\ success_count = 0
    /\ errlog = <<>>
    /\ resp = [i \in Ids |-> NoResponse]
    /\ visits = [i \in Ids |-> 0]
    /\ files = [i \in Ids |-> "none"]
    /\ conn = [i \in Ids |-> "none"]
    /\ portal = NoPortal
    /\ searches = <<>>
    /\ interrupts = 0
    /\ raised = ""
    /\ summary = NoSummary
    /\ sweeps = {}
    /\ FirstRun

\* The dataset ids of the outer worker's `metadata` list.
DatasetIds(n) == {Id(i) : i \in 1..n}

\* _process_task has entered the thread pool's `with` block and submitted
\* one _thread_task per dataset: every future is queued, no result has been
\* asked for.
Submitted(n, w) ==
    [at |-> "waiting",
     max_thread_workers |-> w,
     futures |-> [d \in DatasetIds(n) |-> "queued"],
     got |-> [d \in DatasetIds(n) |-> "pending"],
     success_count |-> 0,
     logged |-> {}]

\* The future finished, with a result or with an exception.
FutureDone(f) == f \in {"stored", "raised"}

\* A thread of the ThreadPoolExecutor is free to take a queued _thread_task.
ThreadFree ==
    Cardinality({d \in DOMAIN pool.futures : pool.futures[d] = "running"})
        < pool.max_thread_workers

\* The pool still runs its tasks: nothing stops it before shutdown(wait=True)
\* has returned.
PoolAlive == pool.at \in {"waiting", "exiting"}

\* A pool thread takes the _thread_task of dataset d.
TaskStart(d) ==
    /\ PoolAlive
    /\ d \in DOMAIN pool.futures
    /\ pool.futures[d] = "queued"
    /\ ThreadFree
    /\ pool' = [pool EXCEPT !.futures[d] = "running"]
    /\ UNCHANGED <<ckan, query>>

\* get_and_store_dataset returns: the dataset was fetched and its file
\* written; _thread_task returns True.
TaskStore(d) ==
    /\ PoolAlive
    /\ d \in DOMAIN pool.futures
    /\ pool.futures[d] = "running"
    /\ pool' = [pool EXCEPT !.futures[d] = "stored"]
    /\ UNCHANGED <<ckan, query>>

\* get_and_store_dataset raises: nothing is written.
TaskRaise(d) ==
    /\ PoolAlive
    /\ d \in DOMAIN pool.futures
    /\ pool.futures[d] = "running"
    /\ pool' = [pool EXCEPT !.futures[d] = "raised"]
    /\ UNCHANGED <<ckan, query>>

\* What future.result(timeout=60) gives for a future in state f: its result,
\* its exception, or TimeoutError when 60 s pass and it is not done.
ResultOutcome(f) ==
    IF f = "stored" THEN "ok"
    ELSE IF f = "raised" THEN "Exception"
    ELSE "TimeoutError"

\* One turn of `for future, dataset_id in futures` (a set: the futures come
\* in any order): the result is counted, or the exception is logged.
WaitResult(d) ==
    /\ pool.at = "waiting"
    /\ d \in DOMAIN pool.got
    /\ pool.got[d] = "pending"
    /\ LET r == ResultOutcome(pool.futures[d])
       IN  pool' = [pool EXCEPT
                      !.got[d] = r,
                      !.success_count = IF r = "ok" THEN @ + 1 ELSE @,
                      !.logged = IF r = "ok" THEN @ ELSE @ \cup {d}]
    /\ UNCHANGED <<ckan, query>>

\* The loop is over: the `with` block is left, which calls
\* executor.shutdown(wait=True).
LeaveLoop ==
    /\ pool.at = "waiting"
    /\ \A d \in DOMAIN pool.got : pool.got[d] # "pending"
    /\ pool' = [pool EXCEPT !.at = "exiting"]
    /\ UNCHANGED <<ckan, query>>

\* shutdown(wait=True) returns once every submitted task has finished; the
\* totals are logged and success_count is returned.
PoolReturn ==
    /\ pool.at = "exiting"
    /\ \A d \in DOMAIN pool.futures : FutureDone(pool.futures[d])
    /\ pool' = [pool EXCEPT !.at = "returned"]
    /\ UNCHANGED <<ckan, query>>

TInit ==
    /\ CkanIdle
    /\ \E n \in 0..MaxDatasets : \E w \in 1..MaxWorkers : pool = Submitted(n, w)
    /\ query = NoQuery

TNext ==
    \/ \E d \in DatasetIds(MaxDatasets) : TaskStart(d)
    \/ \E d \in DatasetIds(MaxDatasets) : TaskStore(d)
    \/ \E d \in DatasetIds(MaxDatasets) : TaskRaise(d)
    \/ \E d \in DatasetIds(MaxDatasets) : WaitResult(d)
    \/ LeaveLoop
    \/ PoolReturn

TSpec == TInit /\ [][TNext]_vars

\* The datasets whose fetch-and-store completed.
StoredDatasets == {d \in DOMAIN pool.futures : pool.futures[d] = "stored"}

\* C38: in the one-task-per-resource schedulers the count an outer worker
\* returns is the number of resources whose fetch-and-store completed, a
\* resource logged as failed on a timed-out wait is not stored afterwards,
\* and the worker does not go on waiting for it once its loop is over.
C38_TimedOutTaskIsAbandoned ==
    pool.at # "none" =>
        /\ \A d \in DOMAIN pool.got : pool.got[d] = "TimeoutError" => d \notin StoredDatasets
        /\ pool.at = "returned" => pool.success_count = Cardinality(StoredDatasets)
        /\ pool.at = "exiting" => ENABLED PoolReturn

\* ------------------------------------------- SocrataClient.get_dataset

\* Largest limit, batch size and remote dataset of the modelled calls.
MaxLimit == 3
MaxBatch == 3
MaxRows == 4

\* SocrataDownloadConfig.__post_init__: batch_rows_per_dataset cannot exceed
\* max_rows_per_dataset.
PostInit(c) ==
    [c EXCEPT !.batch_rows_per_dataset =
                  Min(c.max_rows_per_dataset, c.batch_rows_per_dataset)]

SocrataConfigs ==
    {PostInit([max_rows_per_dataset |-> l, batch_rows_per_dataset |-> b]) :
        l \in 1..MaxLimit, b \in 1..MaxBatch}

\* The rows of a remote dataset of n rows, numbered as the API orders them.
RemoteRows(n) == [i \in 1..n |-> i]

\* client.get(limit=batch_size, offset=offset): the rows at offset, at most
\* batch_size of them.
ClientGet(rows, batch_size, offset) == Slice(rows, offset, offset + batch_size)

\* get_dataset(id, format, limit=limit, batch_size=batch_size) against a
\* remote dataset of n rows, before its loop: offset is 0 and dataset empty.
\* caller tells the bulk _thread_task's call from a direct one.
Call(caller, limit, batch_size, n) ==
    [at |-> "loop", caller |-> caller, limit |-> limit, batch_size |-> batch_size,
     remote |-> RemoteRows(n), offset |-> 0, dataset |-> <<>>]

\* while limit == -1 or len(dataset) < limit
LoopGoesOn(q) == q.limit = -1 \/ Len(q.dataset) < q.limit

\* One turn of the loop: a batch is asked for; an empty one breaks the loop,
\* any other is appended whole and the offset advances by batch_size.
GetBatch ==
    /\ query.at = "loop"
    /\ LoopGoesOn(query)
    /\ LET new_rows == ClientGet(query.remote, query.batch_size, query.offset)
       IN  IF Len(new_rows) = 0
           THEN query' = [query EXCEPT !.at = "returned"]
           ELSE query' = [query EXCEPT !.dataset = @ \o new_rows,
                                       !.offset = @ + query.batch_size]
    /\ UNCHANGED <<ckan, pool>>

\* The loop condition is false: return dataset.
ReturnDataset ==
    /\ query.at = "loop"
    /\ ~LoopGoesOn(query)
    /\ query' = [query EXCEPT !.at = "returned"]
    /\ UNCHANGED <<ckan, pool>>

\* A call made directly with any limit >= 0 and batch_size >= 1, or by the
\* bulk _thread_task with limit=cfg.max_rows_per_dataset and
\* batch_size=cfg.batch_rows_per_dataset.
QInit ==
    /\ CkanIdle
    /\ pool = NoPool
    /\ \E n \in 0..MaxRows :
          \/ \E l \in 0..MaxLimit : \E b \in 1..MaxBatch : query = Call("direct", l, b, n)
          \/ \E c \in SocrataConfigs :
                query = Call("bulk", c.max_rows_per_dataset, c.batch_rows_per_dataset, n)

QNext ==
    \/ GetBatch
    \/ ReturnDataset

QSpec == QInit /\ [][QNext]_vars

\* C39: for every limit >= 0, batch_size >= 1 and remote dataset,
\* get_dataset returns at most limit records, a bulk download with its
\* clamped batch size included.
C39_AtMostLimitRecords ==
    query.at = "returned" => Len(query.dataset) <= query.limit

====
